---- MODULE Spec2Model ----
(***************************************************************************)
(* Store provisioning platform: the durable store table, the provisioning  *)
(* worker (thread pool, task map, reconciler task), the create and delete  *)
(* request handlers and the startup resume, as a state machine.            *)
(*                                                                         *)
(* Time is counted in units of the poll interval.  A store id is modelled  *)
(* by a small integer (the code's "{name}-{8 hex}" is fresh per insert).   *)
(***************************************************************************)
EXTENDS Integers, Sequences, FiniteSets, TLC

\* ----------------------------------------------------------------- bounds
MaxStores == 2
MaxNames == 2
MaxCallers == 2
MaxTasks == 2
MaxWorkers == 1
PoolWorkers == 2
MaxCrashes == 1
MaxRequests == 3
MaxAge == 1
MaxPods == 3
MaxContainers == 2
MaxStopCalls == 2
\* Config.PROVISIONING_TIMEOUT_SECONDS, scaled to poll intervals
ProvisioningTimeout == 1

Ids == 1..MaxStores
Names == 1..MaxNames
Callers == 1..MaxCallers
TaskIds == 1..MaxTasks

None == "None"

\* the first value of a time counter that exceeds the timeout
ElapsedCap == ProvisioningTimeout + 1

VARIABLES
    db,              \* table stores: id -> row (rows are never removed)
    release,         \* id -> whether the packager holds a release of that name
    age,             \* id -> poll intervals the store had already waited for when
                     \* the process last started, counted up to MaxAge
    up,              \* the backend process is running
    booting,         \* create_app is still in resume_provisioning_stores
    crashes,         \* abrupt terminations so far
    requests,        \* requests and resume calls accepted so far
    thr,             \* caller thread -> its request and position in it
    tasks,           \* future -> reconciler task state
    queue,           \* the executor's work queue (FIFO)
    active_futures,  \* ProvisioningWorker.active_futures: id -> future or 0
    max_workers,     \* ProvisioningWorker.max_workers: size of the thread pool
    pods_loop,       \* K8sService.check_store_ready: the locals of one call
    pool             \* ProvisioningWorker.running, the executor's shutdown flag
                     \* and the position of the thread that calls stop()

vars == <<db, release, age, up, booting, crashes, requests, thr, tasks, queue,
          active_futures, max_workers, pods_loop, pool>>

\* ------------------------------------------------------------ data shapes
Namespace(s) == <<"store-", s>>

NewStoreReady(s, n) ==
    [name |-> n, namespace |-> Namespace(s), helm_release |-> s,
     status |-> "READY", failure_reason |-> None, store_url |-> None]

\* the Store(...) row create_store adds: id s, name n
NewStore(s, n) ==
    [name |-> n, namespace |-> Namespace(s), helm_release |-> s,
     status |-> "PROVISIONING", failure_reason |-> None, store_url |-> None]

Idle ==
    [op |-> "none", pc |-> "idle", name |-> 0, id |-> 0,
     todo |-> <<>>, resp |-> 0, exc |-> "none", output |-> None]

\* helm_status: what get_release_status returned to this task;
\* elapsed: what the loop computes as time.time() - start_time;
\* checks: the in-progress verdicts (each followed by one sleep) of this loop;
\* out, output: how the task returned, and the packager output it returned with;
\* logged: the columns of the store whose values stand in the log records this
\* execution has emitted
FreeTask ==
    [store |-> 0, pc |-> "free", helm_status |-> None, elapsed |-> 0, checks |-> 0,
     out |-> "none", output |-> None, logged |-> {}]

LivePcs == {"queued", "status", "install", "poll"}
RunningPcs == {"status", "install", "poll"}

Min(a, b) == IF a < b THEN a ELSE b

\* one more poll interval on a time counter; past the timeout only the parity
\* of the count is kept, which no comparison with the timeout can tell apart
Advance(e) ==
    IF e < ElapsedCap THEN e + 1
    ELSE IF e = ElapsedCap THEN ElapsedCap + 1 ELSE ElapsedCap

\* ------------------------------------------------------------ repository
UpdateStoreStatusRewritesNamespace(d, s, st, fr, url) ==
    IF s \notin DOMAIN d THEN d
    ELSE [d EXCEPT ![s] = [@ EXCEPT !.status = st, !.namespace = <<"store-", 0>>]]

\* StoreService.update_store_status: a blind write of status; failure_reason
\* and store_url are written only when the argument is truthy.
UpdateStoreStatus(d, s, st, fr, url) ==
    IF s \notin DOMAIN d THEN d
    ELSE [d EXCEPT ![s] =
            [@ EXCEPT !.status = st,
                      !.failure_reason = IF fr # None THEN fr ELSE @,
                      !.store_url = IF url # None THEN url ELSE @]]

\* what get_store_by_id returns for an id without a row (None)
NoStore ==
    [name |-> 0, namespace |-> Namespace(0), helm_release |-> 0,
     status |-> "none", failure_reason |-> None, store_url |-> None]

\* StoreService.get_store_by_id: the row, or None
GetStoreById(d, s) == IF s \in DOMAIN d THEN d[s] ELSE NoStore

NameExistsAmongLive(d, n) == \E s \in DOMAIN d : d[s].name = n /\ d[s].status # "DELETED"

\* session.query(Store).filter_by(name=name).first()
NameExists(d, n) == \E s \in DOMAIN d : d[s].name = n

UniqueViolationOff(d, n) == FALSE

\* the unique index on stores.name, enforced at commit
UniqueViolation(d, n) == \E s \in DOMAIN d : d[s].name = n

RECURSIVE Ascending(_)
Ascending(S) ==
    IF S = {} THEN <<>>
    ELSE LET m == CHOOSE x \in S : \A y \in S : x <= y
         IN <<m>> \o Ascending(S \ {m})

GetProvisioningStoresFirst(d) ==
    LET all == Ascending({s \in DOMAIN d : d[s].status = "PROVISIONING"})
    IN IF all = <<>> THEN <<>> ELSE <<Head(all)>>

\* StoreService.get_provisioning_stores
GetProvisioningStores(d) ==
    Ascending({s \in DOMAIN d : d[s].status = "PROVISIONING"})

\* --------------------------------------------------------------- cluster
\* K8sService.check_store_ready over what the cluster answers:
\*   ns      "exists" | "absent" | "error" (non-404 ApiException, re-raised)
\*   pods    the (all_ready, failure_reason) pair of check_pods_ready
\*   ingress what get_ingress_url returns (None when absent or without rules)
Observations ==
    [ns : {"exists", "absent", "error"},
     all_ready : BOOLEAN,
     pod_failure : {None, "PodFailure"},
     ingress : {None, "http://host"}]

CheckStoreReadyProgressFirst(o) ==
    IF o.ns = "error" THEN
        [raised |-> TRUE, ready |-> FALSE, store_url |-> None, failure_reason |-> None]
    ELSE IF o.ns = "absent" THEN
        [raised |-> FALSE, ready |-> FALSE, store_url |-> None,
         failure_reason |-> "Namespace does not exist"]
    ELSE IF ~o.all_ready THEN
        [raised |-> FALSE, ready |-> FALSE, store_url |-> None, failure_reason |-> None]
    ELSE IF o.pod_failure # None THEN
        [raised |-> FALSE, ready |-> FALSE, store_url |-> None,
         failure_reason |-> o.pod_failure]
    ELSE
        [raised |-> FALSE, ready |-> TRUE, store_url |-> o.ingress, failure_reason |-> None]

CheckStoreReadyAbsentInProgress(o) ==
    IF o.ns = "error" THEN
        [raised |-> TRUE, ready |-> FALSE, store_url |-> None, failure_reason |-> None]
    ELSE IF o.ns = "absent" THEN
        [raised |-> FALSE, ready |-> FALSE, store_url |-> None, failure_reason |-> None]
    ELSE IF o.pod_failure # None THEN
        [raised |-> FALSE, ready |-> FALSE, store_url |-> None,
         failure_reason |-> o.pod_failure]
    ELSE IF ~o.all_ready THEN
        [raised |-> FALSE, ready |-> FALSE, store_url |-> None, failure_reason |-> None]
    ELSE
        [raised |-> FALSE, ready |-> TRUE, store_url |-> o.ingress, failure_reason |-> None]

CheckStoreReady(o) ==
    IF o.ns = "error" THEN
        [raised |-> TRUE, ready |-> FALSE, store_url |-> None, failure_reason |-> None]
    ELSE IF o.ns = "absent" THEN
        [raised |-> FALSE, ready |-> FALSE, store_url |-> None,
         failure_reason |-> "Namespace does not exist"]
    ELSE IF o.pod_failure # None THEN
        [raised |-> FALSE, ready |-> FALSE, store_url |-> None,
         failure_reason |-> o.pod_failure]
    ELSE IF ~o.all_ready THEN
        [raised |-> FALSE, ready |-> FALSE, store_url |-> None, failure_reason |-> None]
    ELSE
        [raised |-> FALSE, ready |-> TRUE, store_url |-> o.ingress, failure_reason |-> None]

\* ------------------------------------------------------ check_pods_ready
\* A pod as the classifier reads it.  role: which of the substrings 'mysql',
\* 'wordpress', 'woocommerce-setup' the first matching branch finds in the pod
\* name; phase: pod.status.phase; cs: pod.status.container_statuses in the
\* cluster's order (empty when the pod reports none).
Roles == {"mysql", "wordpress", "woocommerce-setup"}
Phases == {"Pending", "Running", "Failed"}
WaitingReasons == {"ImagePullBackOff", "ErrImagePull", "CrashLoopBackOff", "ContainerCreating"}
ExitCodes == {0, 2}

Containers ==
    {[ready |-> r, state |-> "running", reason |-> None, exit_code |-> 0] : r \in BOOLEAN}
    \cup {[ready |-> FALSE, state |-> "waiting", reason |-> w, exit_code |-> 0] :
              w \in WaitingReasons}
    \cup {[ready |-> FALSE, state |-> "terminated", reason |-> None, exit_code |-> x] :
              x \in ExitCodes}

ContainerLists == UNION {[1..k -> Containers] : k \in 0..MaxContainers}

Pods == [role : Roles, phase : Phases, cs : ContainerLists]

NoPod == [role |-> "none", phase |-> "none", cs |-> <<>>]

\* ready_count == total_containers
AllContainersReady(pod) == \A i \in DOMAIN pod.cs : pod.cs[i].ready

\* the f-strings of the failure reasons
RoleLabel(role) == IF role = "mysql" THEN "MySQL" ELSE "WordPress"

FailureText(label, what) ==
    CASE label = "MySQL" /\ what = "ImagePullBackOff" -> "MySQL: ImagePullBackOff"
      [] label = "MySQL" /\ what = "ErrImagePull" -> "MySQL: ErrImagePull"
      [] label = "MySQL" /\ what = "CrashLoopBackOff" -> "MySQL: CrashLoopBackOff"
      [] label = "MySQL" /\ what = "terminated" -> "MySQL: Container terminated"
      [] label = "WordPress" /\ what = "ImagePullBackOff" -> "WordPress: ImagePullBackOff"
      [] label = "WordPress" /\ what = "ErrImagePull" -> "WordPress: ErrImagePull"
      [] label = "WordPress" /\ what = "CrashLoopBackOff" ->
             "WordPress: CrashLoopBackOff (Restarts: n)"
      [] label = "WordPress" /\ what = "terminated" -> "WordPress: Container terminated"

ExitCodeText(x) == IF x = 2 THEN "Setup job failed with exit code 2"
                   ELSE "Setup job failed with exit code 0"

\* the branch of the loop body that marks a mysql or wordpress pod ready
WorkloadReady(pod) == pod.phase = "Running" /\ AllContainersReady(pod)

\* the branch that marks the setup job completed (first container only)
SetupCompleted(pod) ==
    /\ pod.cs # <<>>
    /\ pod.cs[1].state = "terminated"
    /\ pod.cs[1].exit_code = 0

\* the failure_reason one loop iteration assigns for this pod, None when the
\* iteration assigns none
PodFailure(pod) ==
    IF pod.role \in {"mysql", "wordpress"} THEN
        IF WorkloadReady(pod) \/ pod.phase = "Pending" \/ pod.cs = <<>> THEN None
        ELSE LET c == pod.cs[1] IN
             IF c.state = "waiting" THEN
                 IF c.reason \in {"ImagePullBackOff", "ErrImagePull", "CrashLoopBackOff"}
                 THEN FailureText(RoleLabel(pod.role), c.reason)
                 ELSE None
             ELSE IF c.state = "terminated"
             THEN FailureText(RoleLabel(pod.role), "terminated")
             ELSE None
    ELSE IF pod.role = "woocommerce-setup" THEN
        IF pod.cs # <<>> /\ pod.cs[1].state = "terminated" /\ pod.cs[1].exit_code # 0
        THEN ExitCodeText(pod.cs[1].exit_code)
        ELSE None
    ELSE None

\* the locals of check_store_ready and of the check_pods_ready loop inside it;
\* pod is the pod of the last iteration, n the number of iterations so far
\* What read_namespaced_ingress answers: the ingress ("found", with or without
\* rules and TLS), 404 ("absent") or another ApiException ("error");
\* NoLookup when the call never reaches get_ingress_url.
NoLookup == [status |-> "skipped", has_rules |-> FALSE, tls |-> FALSE]

Ingresses ==
    {[status |-> "absent", has_rules |-> FALSE, tls |-> FALSE],
     [status |-> "error", has_rules |-> FALSE, tls |-> FALSE]}
    \cup {[status |-> "found", has_rules |-> r, tls |-> t] : r \in BOOLEAN, t \in BOOLEAN}

\* K8sService.get_ingress_url: f"{protocol}://{host}" of the first rule
GetIngressUrl(ing) ==
    IF ing.status = "found" /\ ing.has_rules
    THEN IF ing.tls THEN "https://host" ELSE "http://host"
    ELSE None

NoCall ==
    [pc |-> "none", mysql_ready |-> FALSE, wordpress_ready |-> FALSE,
     setup_job_completed |-> FALSE, failure_reason |-> None,
     pod |-> NoPod, n |-> 0, ingress |-> NoLookup,
     result |-> [raised |-> FALSE, ready |-> FALSE, store_url |-> None,
                 failure_reason |-> None]]

VisitPodReadyClearsFailure(l, pod) ==
    [l EXCEPT !.mysql_ready = @ \/ (pod.role = "mysql" /\ WorkloadReady(pod)),
              !.wordpress_ready = @ \/ (pod.role = "wordpress" /\ WorkloadReady(pod)),
              !.setup_job_completed =
                  @ \/ (pod.role = "woocommerce-setup" /\ SetupCompleted(pod)),
              !.failure_reason = IF PodFailure(pod) # None THEN PodFailure(pod)
                                 ELSE IF WorkloadReady(pod) THEN None ELSE @,
              !.pod = pod,
              !.n = @ + 1]

\* one iteration of "for pod in pods.items"
VisitPod(l, pod) ==
    [l EXCEPT !.mysql_ready = @ \/ (pod.role = "mysql" /\ WorkloadReady(pod)),
              !.wordpress_ready = @ \/ (pod.role = "wordpress" /\ WorkloadReady(pod)),
              !.setup_job_completed =
                  @ \/ (pod.role = "woocommerce-setup" /\ SetupCompleted(pod)),
              !.failure_reason = IF PodFailure(pod) # None THEN PodFailure(pod) ELSE @,
              !.pod = pod,
              !.n = @ + 1]

\* all_ready = mysql_ready and wordpress_ready and setup_job_completed
AllReadyWithoutSetup(l) == l.mysql_ready /\ l.wordpress_ready

AllReady(l) == l.mysql_ready /\ l.wordpress_ready /\ l.setup_job_completed

\* ------------------------------------------------------------- task pool
\* a worker is held from the start of its task until the callbacks have run
Busy == {t \in TaskIds : tasks[t].pc \in RunningPcs \/ tasks[t].pc = "finished"}

HasFreeSlot == \E t \in TaskIds : tasks[t].pc = "free"
FreeSlot == CHOOSE t \in TaskIds :
               tasks[t].pc = "free" /\ \A u \in TaskIds : u < t => tasks[u].pc # "free"

DuplicateCheckOff(s) == FALSE

\* "store_id in self.active_futures" and "not future.done()"
HasUnfinishedFuture(s) ==
    active_futures[s] # 0 /\ tasks[active_futures[s]].pc # "finished"

HasLiveTask(s) == \E t \in TaskIds : tasks[t].store = s /\ tasks[t].pc \in LivePcs

FinishedStillRunning(t, o) == [tasks[t] EXCEPT !.out = o]

\* the future's state once _provision_store has returned
Finished(t, o) ==
    [FreeTask EXCEPT !.store = tasks[t].store, !.pc = "finished", !.out = o,
                     !.logged = tasks[t].logged]

NeverTimedOut(e) == FALSE

\* elapsed > Config.PROVISIONING_TIMEOUT_SECONDS
TimedOut(e) == e > ProvisioningTimeout

\* the wait of earlier process lives counted in
StartElapsedSinceCreation(s) == Min(age[s], ElapsedCap)

\* start_time = time.time() right before the loop: nothing has elapsed yet
StartElapsed(s) == 0

\* ------------------------------------------------------------------ Init
\* the worker after start(): running, its executor open, nobody in stop();
\* calls counts the calls of stop, pending the tasks that were queued or
\* running when the executor was shut down
StartedPool ==
    [running |-> TRUE, shutdown |-> FALSE, stop |-> "idle", calls |-> 0,
     pending |-> 0]

\* create_app on an empty table, with a pool of w worker threads
Started(w) ==
    /\ pool = StartedPool
    /\ db = <<>>
    /\ release = [s \in Ids |-> FALSE]
    /\ age = [s \in Ids |-> 0]
    /\ up = TRUE
    /\ booting = FALSE
    /\ crashes = 0
    /\ requests = 0
    /\ thr = [c \in Callers |-> Idle]
    /\ tasks = [t \in TaskIds |-> FreeTask]
    /\ queue = <<>>
    /\ active_futures = [s \in Ids |-> 0]
    /\ max_workers = w

Init ==
    /\ Started(MaxWorkers)
    /\ pods_loop = NoCall

\* -------------------------------------------------------------- packager
\* HelmService.get_release_status: the status token, or None when the release
\* is absent and also when the subprocess times out or its output is unreadable
GetReleaseStatus(s) == IF release[s] THEN {"deployed", "failed", None} ELSE {None}

ReleasePresentOnlyDeployed(hs) == hs = "deployed"

\* "if not helm_status": any status token counts as an existing release
ReleasePresent(hs) == hs # None

\* StoreService.get_helm_values: the columns of the store that go into the
\* values dict, which the method writes to the log at DEBUG
GetHelmValues ==
    {"id", "name", "namespace", "engine", "db_root_password", "db_name",
     "db_username", "db_password", "admin_username", "admin_password", "admin_email"}

\* HelmService.install: the columns in the "--set key=value" arguments of the
\* command line, which the method writes to the log at DEBUG
InstallCommandLogged(values) == values

\* the columns in the bodies the API answers with: POST /stores, GET /stores
\* and GET /stores/<id>
ResponseColumns ==
    {"id", "name", "engine", "namespace", "helm_release", "status", "store_url",
     "failure_reason", "admin_username", "admin_email", "created_at", "updated_at"}

\* HelmService.install succeeds only when no release of that name exists
InstallOutcomes(s) == IF release[s] THEN {FALSE} ELSE BOOLEAN

\* the error_msg HelmService.install returns with success = False: non-zero
\* exit (with the subprocess's stderr) or the subprocess timeout
InstallFailureOutputs ==
    {"Helm install failed: stderr", "Helm install timed out for release"}

InstallFailureReasonBare(output) == "Helm install failed"

\* f"Helm install failed: {output}"
InstallFailureReason(output) ==
    CASE output = "Helm install failed: stderr" ->
             "Helm install failed: Helm install failed: stderr"
      [] output = "Helm install timed out for release" ->
             "Helm install failed: Helm install timed out for release"

\* ------------------------------------------------- _provision_store (task)
SkipOnlyWhenAbsent(d, s) == s \notin DOMAIN d

\* "if not store: return" and "if store.status not in ['PROVISIONING']: return"
ShouldSkip(d, s) == s \notin DOMAIN d \/ d[s].status # "PROVISIONING"

\* a pool worker takes the oldest queued task and runs it up to the status check
Start(t) ==
    /\ up
    /\ queue # <<>>
    /\ Head(queue) = t
    /\ Cardinality(Busy) < max_workers
    /\ queue' = Tail(queue)
    /\ LET s == tasks[t].store IN
         IF ShouldSkip(db, s)
         THEN tasks' = [tasks EXCEPT ![t] = Finished(t, "skip")]
         ELSE tasks' = [tasks EXCEPT ![t].pc = "status"]
    /\ UNCHANGED <<max_workers, pods_loop, pool, db, release, age, up, booting, crashes, requests, thr, active_futures>>

HelmStatus(t) ==
    /\ tasks[t].pc = "status"
    /\ \E hs \in GetReleaseStatus(tasks[t].store) :
         tasks' = IF ~ReleasePresent(hs)
                  THEN [tasks EXCEPT ![t].pc = "install", ![t].helm_status = hs]
                  ELSE [tasks EXCEPT ![t].pc = "poll", ![t].helm_status = hs,
                                     ![t].elapsed = StartElapsed(tasks[t].store)]
    /\ UNCHANGED <<max_workers, pods_loop, pool, db, release, age, up, booting, crashes, requests, thr, queue, active_futures>>

\* get_helm_values and helm install (both log what they were given), then
\* either the loop's start or the FAILED write
Install(t) ==
    /\ tasks[t].pc = "install"
    /\ LET s == tasks[t].store
           lg == tasks[t].logged \cup GetHelmValues
                    \cup InstallCommandLogged(GetHelmValues)
       IN
       \E ok \in InstallOutcomes(s) :
         IF ok
         THEN /\ release' = [release EXCEPT ![s] = TRUE]
              /\ tasks' = [tasks EXCEPT ![t].pc = "poll",
                                        ![t].elapsed = StartElapsed(s),
                                        ![t].logged = lg]
              /\ db' = db
         ELSE /\ \E left \in BOOLEAN :
                   release' = [release EXCEPT ![s] = release[s] \/ left]
              /\ \E output \in InstallFailureOutputs :
                   /\ db' = UpdateStoreStatus(db, s, "FAILED",
                                              InstallFailureReason(output), None)
                   /\ tasks' = [tasks EXCEPT
                                  ![t] = [Finished(t, "install_failed")
                                            EXCEPT !.output = output,
                                                   !.logged = lg]]
    /\ UNCHANGED <<max_workers, pods_loop, pool, age, up, booting, crashes, requests, thr, queue, active_futures>>

\* one iteration of the readiness loop: the timeout test, else a readiness
\* check and either the commit of its verdict or the sleep before the next
\* (o: what the cluster answers to the readiness check of this iteration)
PollWith(t, o) ==
    /\ tasks[t].pc = "poll"
    /\ LET s == tasks[t].store IN
       IF TimedOut(tasks[t].elapsed)
       THEN /\ db' = UpdateStoreStatus(db, s, "FAILED", "Provisioning timed out", None)
            /\ tasks' = [tasks EXCEPT ![t] = Finished(t, "timeout")]
       ELSE LET r == CheckStoreReady(o) IN
            IF r.raised THEN
                /\ db' = UpdateStoreStatus(db, s, "FAILED", "Unexpected error", None)
                /\ tasks' = [tasks EXCEPT ![t] = Finished(t, "unexpected")]
            ELSE IF r.ready THEN
                /\ db' = UpdateStoreStatus(db, s, "READY", None, r.store_url)
                /\ tasks' = [tasks EXCEPT ![t] = Finished(t, "ready")]
            ELSE IF r.failure_reason # None THEN
                /\ db' = UpdateStoreStatus(db, s, "FAILED", r.failure_reason, None)
                /\ tasks' = [tasks EXCEPT ![t] = Finished(t, "failed")]
            ELSE
                /\ tasks' = [tasks EXCEPT ![t].elapsed = Advance(@),
                                          ![t].checks = Min(@ + 1, ElapsedCap)]
                /\ db' = db
    /\ UNCHANGED <<max_workers, pods_loop, pool, release, age, up, booting, crashes, requests, thr, queue, active_futures>>

\* an iteration that times out asks the cluster nothing
NoObservation ==
    [ns |-> "exists", all_ready |-> FALSE, pod_failure |-> None, ingress |-> None]

Poll(t) ==
    \E o \in IF TimedOut(tasks[t].elapsed) THEN {NoObservation} ELSE Observations :
       PollWith(t, o)

CleanupKeepsEntry(af, s) == af

\* "if store_id in self.active_futures: del self.active_futures[store_id]":
\* the entry of the id goes, whichever future it holds
Cleanup(af, s) == [af EXCEPT ![s] = 0]

\* cleanup_callback, run by the worker once the future is done
Callback(t) ==
    /\ tasks[t].pc = "finished"
    /\ active_futures' = Cleanup(active_futures, tasks[t].store)
    /\ tasks' = [tasks EXCEPT ![t] = FreeTask]
    /\ UNCHANGED <<max_workers, pods_loop, pool, db, release, age, up, booting, crashes, requests, thr, queue>>

\* ------------------------- submit_provisioning_task (run by a caller thread)
\* where the caller goes when submit_provisioning_task returns: the create
\* handler answers 202, the resume loop takes its next store
AfterSubmit(r) ==
    IF r.op = "create"
    THEN [r EXCEPT !.pc = "done", !.resp = 202]
    ELSE IF r.todo = <<>>
    THEN [r EXCEPT !.pc = "done"]
    ELSE [r EXCEPT !.pc = "sub_check", !.id = Head(r.todo), !.todo = Tail(r.todo)]

\* the duplicate check: an unfinished future drops the submission, a finished
\* one is removed from the map
SubCheck(c) ==
    /\ thr[c].pc = "sub_check"
    /\ LET s == thr[c].id
       IN IF HasUnfinishedFuture(s)
          THEN /\ thr' = [thr EXCEPT ![c] = AfterSubmit(thr[c])]
               /\ active_futures' = active_futures
          ELSE /\ thr' = [thr EXCEPT ![c].pc = "sub_exec"]
               /\ active_futures' = [active_futures EXCEPT ![s] = 0]
    /\ UNCHANGED <<max_workers, pods_loop, pool, db, release, age, up, booting, crashes, requests, tasks, queue>>

\* executor.submit, the store of the new future in the map and
\* add_done_callback (the callback runs once the future is done)
SubExec(c) ==
    /\ thr[c].pc = "sub_exec"
    /\ ~pool.shutdown
    /\ HasFreeSlot
    /\ LET s == thr[c].id
           t == FreeSlot
       IN /\ tasks' = [tasks EXCEPT ![t] = [FreeTask EXCEPT !.store = s, !.pc = "queued"]]
          /\ queue' = Append(queue, t)
          /\ active_futures' = [active_futures EXCEPT ![s] = t]
    /\ thr' = [thr EXCEPT ![c] = AfterSubmit(thr[c])]
    /\ UNCHANGED <<max_workers, pods_loop, pool, db, release, age, up, booting, crashes, requests>>

\* ------------------------------------------- POST /stores (StoreListResource)
CreatesInFlight == Cardinality({c \in Callers : thr[c].pc = "create_commit"})

\* a request field: text is the name it spells (0: no character but blanks),
\* padded tells whether blanks surround it; "" is Text(0, FALSE)
Text(t, p) == [text |-> t, padded |-> p]

\* str.strip()
Strip(x) == [x EXCEPT !.padded = FALSE]

\* not x
Falsy(x) == x = Text(0, FALSE)

\* not x or not x.strip()
EmptyAfterStrip(x) == Falsy(x) \/ Falsy(Strip(x))

ValidEngines == {"woocommerce", "medusa"}

GoodRequest(n) ==
    [name |-> Text(n, FALSE), engine |-> "woocommerce",
     admin_username |-> Text(1, FALSE), admin_password |-> Text(1, FALSE),
     admin_email |-> Text(1, FALSE)]

\* the request bodies: well-formed ones, one with a padded name, one for the
\* other engine, and bodies with one field missing, blank or out of the enum
CreateRequests ==
    {GoodRequest(n) : n \in Names}
      \cup {[GoodRequest(1) EXCEPT !.name = x] :
               x \in {Text(1, TRUE), Text(0, FALSE), Text(0, TRUE)}}
      \cup {[GoodRequest(1) EXCEPT !.engine = e] : e \in {"medusa", "magento", ""}}
      \cup {[GoodRequest(1) EXCEPT !.admin_username = Text(0, TRUE)],
            [GoodRequest(1) EXCEPT !.admin_password = Text(0, FALSE)],
            [GoodRequest(1) EXCEPT !.admin_email = Text(0, TRUE)]}

\* the handler's "Field ... is required" tests
FieldMissing(req) ==
    \/ Falsy(req.name)
    \/ req.engine = ""
    \/ Falsy(req.admin_username)
    \/ Falsy(req.admin_password)
    \/ Falsy(req.admin_email)

InvalidInputOff(req) == FALSE

\* the tests of create_store that raise ValueError before the name query
InvalidInput(req) ==
    \/ req.engine \notin ValidEngines
    \/ EmptyAfterStrip(req.name)
    \/ EmptyAfterStrip(req.admin_username)
    \/ EmptyAfterStrip(req.admin_password)
    \/ EmptyAfterStrip(req.admin_email)

\* the handler and create_store up to the name query, as the position the
\* request is in afterwards: answered 400 (a missing field; a ValueError for
\* invalid input or a taken name), or before the insert with the trimmed name
CreateOutcome(d, req) ==
    LET n == Strip(req.name).text IN
    IF FieldMissing(req)
    THEN [Idle EXCEPT !.op = "create", !.pc = "done", !.resp = 400,
                      !.exc = "FieldRequired"]
    ELSE IF InvalidInput(req)
    THEN [Idle EXCEPT !.op = "create", !.pc = "done", !.resp = 400,
                      !.exc = "ValueError"]
    ELSE IF NameExists(d, n)
    THEN [Idle EXCEPT !.op = "create", !.pc = "done", !.name = n, !.resp = 400,
                      !.exc = "ValueError"]
    ELSE [Idle EXCEPT !.op = "create", !.pc = "create_commit", !.name = n]

CreateStart(c, req) ==
    /\ up /\ ~booting
    /\ thr[c].pc = "idle"
    /\ requests < MaxRequests
    /\ requests' = requests + 1
    /\ LET r == CreateOutcome(db, req) IN
       /\ r.pc = "create_commit"
             => Cardinality(DOMAIN db) + CreatesInFlight < MaxStores
       /\ thr' = [thr EXCEPT ![c] = r]
    /\ UNCHANGED <<max_workers, pods_loop, pool, db, release, age, up, booting, crashes, tasks, queue, active_futures>>

\* session.add + commit; the unique index refuses a name committed meanwhile
\* (IntegrityError, which the handler answers with 500)
CreateCommit(c) ==
    /\ thr[c].pc = "create_commit"
    /\ IF UniqueViolation(db, thr[c].name)
       THEN /\ thr' = [thr EXCEPT ![c].pc = "done", ![c].resp = 500,
                                  ![c].exc = "IntegrityError"]
            /\ db' = db
       ELSE LET s == CHOOSE i \in Ids : i \notin DOMAIN db
                                        /\ \A j \in Ids : j < i => j \in DOMAIN db
            IN /\ db' = db @@ (s :> NewStore(s, thr[c].name))
               /\ thr' = [thr EXCEPT ![c].pc = "sub_check", ![c].id = s]
    /\ UNCHANGED <<max_workers, pods_loop, pool, release, age, up, booting, crashes, requests, tasks, queue, active_futures>>

\* ------------------------------------ DELETE /stores/<id> (StoreResource)
AlreadyDeletedOff(d, s) == FALSE

AlreadyDeletedOrDeleting(d, s) == d[s].status \in {"DELETED", "DELETING"}

\* if store.status == 'DELETED'
AlreadyDeleted(d, s) == d[s].status = "DELETED"

\* get_store_by_id and the two refusals: 404 for no record, 400 for DELETED
DeleteStart(c, s) ==
    /\ up /\ ~booting
    /\ thr[c].pc = "idle"
    /\ requests < MaxRequests
    /\ requests' = requests + 1
    /\ thr' = [thr EXCEPT ![c] =
                 IF s \notin DOMAIN db
                 THEN [Idle EXCEPT !.op = "delete", !.pc = "done", !.id = s, !.resp = 404]
                 ELSE IF AlreadyDeleted(db, s)
                 THEN [Idle EXCEPT !.op = "delete", !.pc = "done", !.id = s, !.resp = 400]
                 ELSE [Idle EXCEPT !.op = "delete", !.pc = "del_mark", !.id = s]]
    /\ UNCHANGED <<max_workers, pods_loop, pool, db, release, age, up, booting, crashes, tasks, queue, active_futures>>

\* what HelmService.uninstall returns with success False
UninstallFailureOutputs ==
    {"Helm uninstall failed: stderr", "Helm uninstall timed out for release"}

\* f"Delete failed: {output}"
DeleteFailureReason(output) ==
    CASE output = "Helm uninstall failed: stderr"
           -> "Delete failed: Helm uninstall failed: stderr"
      [] output = "Helm uninstall timed out for release"
           -> "Delete failed: Helm uninstall timed out for release"
      [] OTHER -> "Delete failed: "

\* mark_store_deleting
DeleteMark(c) ==
    /\ thr[c].pc = "del_mark"
    /\ db' = UpdateStoreStatus(db, thr[c].id, "DELETING", None, None)
    /\ thr' = [thr EXCEPT ![c].pc = "del_uninstall"]
    /\ UNCHANGED <<max_workers, pods_loop, pool, release, age, up, booting, crashes, requests, tasks, queue, active_futures>>

\* helm uninstall, then mark_store_deleted or the FAILED write
DeleteUninstall(c) ==
    /\ thr[c].pc = "del_uninstall"
    /\ LET s == thr[c].id IN
       \/ /\ release' = [release EXCEPT ![s] = FALSE]
          /\ db' = UpdateStoreStatus(db, s, "DELETED", None, None)
          /\ thr' = [thr EXCEPT ![c].pc = "done", ![c].resp = 200]
       \/ \E output \in UninstallFailureOutputs :
            /\ release' = release
            /\ db' = UpdateStoreStatus(db, s, "FAILED", DeleteFailureReason(output), None)
            /\ thr' = [thr EXCEPT ![c].pc = "done", ![c].resp = 500,
                                   ![c].output = output]
    /\ UNCHANGED <<max_workers, pods_loop, pool, age, up, booting, crashes, requests, tasks, queue, active_futures>>

\* ------------------------------------------- resume_provisioning_stores
\* a call of the worker's public method while the process serves
ResumeStart(c) ==
    /\ up /\ ~booting
    /\ thr[c].pc = "idle"
    /\ requests < MaxRequests
    /\ requests' = requests + 1
    /\ LET lst == GetProvisioningStores(db) IN
       thr' = [thr EXCEPT ![c] =
                 IF lst = <<>>
                 THEN [Idle EXCEPT !.op = "resume", !.pc = "done"]
                 ELSE [Idle EXCEPT !.op = "resume", !.pc = "sub_check",
                                   !.id = Head(lst), !.todo = Tail(lst)]]
    /\ UNCHANGED <<max_workers, pods_loop, pool, db, release, age, up, booting, crashes, tasks, queue, active_futures>>

\* the request is answered (or the call has returned); create_app goes on to
\* serve once its resume call has returned
Return(c) ==
    /\ thr[c].pc = "done"
    /\ thr' = [thr EXCEPT ![c] = Idle]
    /\ booting' = IF thr[c].op = "boot" THEN FALSE ELSE booting
    /\ UNCHANGED <<max_workers, pods_loop, pool, db, release, age, up, crashes, requests, tasks, queue, active_futures>>

\* ------------------------------------------------------ process lifecycle
\* what the tasks of store s had slept in their readiness loops
Slept(s) ==
    IF \E t \in TaskIds : tasks[t].store = s /\ tasks[t].checks > 0 THEN 1 ELSE 0

\* abrupt termination: threads, pool and task map are lost, the table and
\* the cluster are not
Crash ==
    /\ up
    /\ crashes < MaxCrashes
    /\ up' = FALSE
    /\ booting' = FALSE
    /\ crashes' = crashes + 1
    /\ thr' = [c \in Callers |-> Idle]
    /\ tasks' = [t \in TaskIds |-> FreeTask]
    /\ queue' = <<>>
    /\ active_futures' = [s \in Ids |-> 0]
    /\ age' = [s \in Ids |-> Min(age[s] + Slept(s), MaxAge)]
    /\ UNCHANGED <<max_workers, pods_loop, pool, db, release, requests>>

\* create_app: start the worker, then resume_provisioning_stores up to its
\* listing of the PROVISIONING rows, on the main thread
Restart ==
    /\ ~up
    /\ up' = TRUE
    /\ booting' = TRUE
    /\ LET lst == GetProvisioningStores(db) IN
       thr' = [thr EXCEPT ![1] =
                 IF lst = <<>>
                 THEN [Idle EXCEPT !.op = "boot", !.pc = "done"]
                 ELSE [Idle EXCEPT !.op = "boot", !.pc = "sub_check",
                                   !.id = Head(lst), !.todo = Tail(lst)]]
    /\ UNCHANGED <<max_workers, pods_loop, pool, db, release, age, crashes, requests, tasks, queue, active_futures>>

\* ------------------------------------------------------------------ Next
TaskStep(t) == Start(t) \/ HelmStatus(t) \/ Install(t) \/ Poll(t)

CallerStep(c) ==
    \/ \E req \in CreateRequests : CreateStart(c, req)
    \/ CreateCommit(c)
    \/ \E s \in Ids : DeleteStart(c, s)
    \/ DeleteMark(c)
    \/ DeleteUninstall(c)
    \/ ResumeStart(c)
    \/ SubCheck(c)
    \/ SubExec(c)
    \/ Return(c)

Next ==
    \/ \E c \in Callers : CallerStep(c)
    \/ \E t \in TaskIds : TaskStep(t)
    \/ \E t \in TaskIds : Callback(t)
    \/ Crash
    \/ Restart

Spec == Init /\ [][Next]_vars

\* crash-free runs in which the pool's worker threads keep running: every
\* task step and every completion callback that can be taken is taken
NextLive ==
    \/ \E c \in Callers : CallerStep(c)
    \/ \E t \in TaskIds : TaskStep(t)
    \/ \E t \in TaskIds : Callback(t)

LiveSpec ==
    /\ Init
    /\ [][NextLive]_vars
    /\ \A t \in TaskIds : WF_vars(TaskStep(t)) /\ WF_vars(Callback(t))

\* ------------------------------------------------ repository call failures
\* get_store_by_id raises (the database is locked or unreachable): the call
\* stands before the try block, so the exception ends the task
LoadRaises(t) ==
    /\ up
    /\ queue # <<>>
    /\ Head(queue) = t
    /\ Cardinality(Busy) < max_workers
    /\ queue' = Tail(queue)
    /\ tasks' = [tasks EXCEPT ![t] = Finished(t, "raised")]
    /\ UNCHANGED <<max_workers, pods_loop, pool, db, release, age, up, booting, crashes, requests, thr, active_futures>>

\* the commit inside update_store_status raises: the method rolls back and
\* returns False, which the task does not look at before it returns
CommitFails(t) ==
    /\ tasks[t].pc \in {"install", "poll"}
    /\ tasks' = [tasks EXCEPT ![t] = Finished(t, "unwritten")]
    /\ UNCHANGED <<max_workers, pods_loop, pool, db, release, age, up, booting, crashes, requests, thr, queue, active_futures>>

\* the commit inside update_store_status raises while the delete handler
\* marks the store: mark_store_deleting returns False, the handler goes on to
\* the uninstall; mark_store_deleted or the FAILED write returns False, the
\* handler answers as if the status had been written
DeleteCommitFails(c) ==
    /\ thr[c].pc \in {"del_mark", "del_uninstall"}
    /\ IF thr[c].pc = "del_mark"
       THEN /\ thr' = [thr EXCEPT ![c].pc = "del_uninstall"]
            /\ release' = release
       ELSE \/ /\ release' = [release EXCEPT ![thr[c].id] = FALSE]
               /\ thr' = [thr EXCEPT ![c].pc = "done", ![c].resp = 200]
            \/ \E output \in UninstallFailureOutputs :
                 /\ release' = release
                 /\ thr' = [thr EXCEPT ![c].pc = "done", ![c].resp = 500,
                                        ![c].output = output]
    /\ UNCHANGED <<max_workers, pods_loop, pool, db, age, up, booting, crashes, requests, tasks, queue, active_futures>>

FaultNext ==
    \/ NextLive
    \/ \E t \in TaskIds : LoadRaises(t)
    \/ \E t \in TaskIds : CommitFails(t)
    \/ \E c \in Callers : DeleteCommitFails(c)

\* crash-free runs in which the task's repository calls can fail
FaultSpec == Init /\ [][FaultNext]_vars

\* crash-free runs of a backend whose pool has PoolWorkers worker threads, so
\* that two tasks can execute at the same time
PoolInit ==
    /\ Started(PoolWorkers)
    /\ pods_loop = NoCall

PoolSpec == PoolInit /\ [][NextLive]_vars

\* runs in which the calls on the backend come one at a time: a caller thread
\* steps only while every other caller thread is idle (the pool's tasks and
\* callbacks run alongside as ever)
SerialNext ==
    \/ \E c \in Callers :
          /\ \A d \in Callers \ {c} : thr[d].pc = "idle"
          /\ CallerStep(c)
    \/ \E t \in TaskIds : TaskStep(t)
    \/ \E t \in TaskIds : Callback(t)
    \/ Crash
    \/ Restart

SerialSpec == Init /\ [][SerialNext]_vars

\* ------------------------------------------------ ProvisioningWorker.stop
\* executor.submit on an executor that was shut down raises RuntimeError: no
\* future is made; the create handler answers 500, resume ends with the
\* exception
SubExecRaises(c) ==
    /\ thr[c].pc = "sub_exec"
    /\ pool.shutdown
    /\ thr' = [thr EXCEPT ![c].pc = "done",
                           ![c].resp = IF thr[c].op = "create" THEN 500 ELSE 0,
                           ![c].exc = "RuntimeError"]
    /\ UNCHANGED <<max_workers, pods_loop, pool, db, release, age, up, booting, crashes, requests, tasks, queue, active_futures>>

\* stop() is entered: a worker that is not running returns at once,
\* otherwise running is cleared
StopCall ==
    /\ up
    /\ pool.stop = "idle"
    /\ pool.calls < MaxStopCalls
    /\ pool' = IF ~pool.running
               THEN [pool EXCEPT !.stop = "returned", !.calls = @ + 1]
               ELSE [pool EXCEPT !.stop = "shutdown", !.calls = @ + 1,
                                 !.running = FALSE]
    /\ UNCHANGED <<max_workers, pods_loop, db, release, age, up, booting, crashes, requests, thr, tasks, queue, active_futures>>

\* executor.shutdown(wait=True, cancel_futures=False) sets the executor's
\* shutdown flag and leaves the work queue as it is
StopShutdown ==
    /\ pool.stop = "shutdown"
    /\ pool' = [pool EXCEPT !.stop = "wait", !.shutdown = TRUE,
                            !.pending = Cardinality({t \in TaskIds :
                                                       tasks[t].pc \in LivePcs})]
    /\ UNCHANGED <<max_workers, pods_loop, db, release, age, up, booting, crashes, requests, thr, tasks, queue, active_futures>>

PoolDrainedOff == TRUE

\* the worker threads have exited: the work queue is empty, no task runs and
\* every done callback has run
PoolDrained == \A t \in TaskIds : tasks[t].pc = "free"

\* shutdown(wait=True) joins the worker threads, then stop() returns
StopJoin ==
    /\ pool.stop = "wait"
    /\ PoolDrained
    /\ pool' = [pool EXCEPT !.stop = "returned"]
    /\ UNCHANGED <<max_workers, pods_loop, db, release, age, up, booting, crashes, requests, thr, tasks, queue, active_futures>>

\* the caller of stop() goes on
StopReturn ==
    /\ pool.stop = "returned"
    /\ pool' = [pool EXCEPT !.stop = "idle"]
    /\ UNCHANGED <<max_workers, pods_loop, db, release, age, up, booting, crashes, requests, thr, tasks, queue, active_futures>>

StopNext ==
    \/ \E c \in Callers :
          \/ \E req \in CreateRequests : CreateStart(c, req)
          \/ CreateCommit(c)
          \/ ResumeStart(c)
          \/ SubCheck(c)
          \/ SubExec(c)
          \/ SubExecRaises(c)
          \/ Return(c)
    \/ \E t \in TaskIds : TaskStep(t)
    \/ \E t \in TaskIds : Callback(t)
    \/ StopCall
    \/ StopShutdown
    \/ StopJoin
    \/ StopReturn

\* crash-free runs of a backend on which stop() is called while requests
\* come in
StopSpec == Init /\ [][StopNext]_vars

\* ------------------------------------- one call of check_store_ready
\* The readiness check on its own: the namespace check, the loop over the pods
\* the cluster lists (each drawn from Pods), and the return.
worker_vars == <<db, release, age, up, booting, crashes, requests, thr, tasks, queue,
                 active_futures, max_workers, pool>>

ReadinessInit ==
    /\ Started(MaxWorkers)
    /\ pods_loop = [NoCall EXCEPT !.pc = "namespace"]

\* check_namespace_exists: True, False (404) or the ApiException re-raised
CheckNamespaceExists ==
    /\ pods_loop.pc = "namespace"
    /\ \E ns \in {"exists", "absent", "error"} :
         pods_loop' =
            IF ns = "exists" THEN [pods_loop EXCEPT !.pc = "pods"]
            ELSE [pods_loop EXCEPT
                    !.pc = "returned",
                    !.result = CheckStoreReady([ns |-> ns, all_ready |-> FALSE,
                                                pod_failure |-> None, ingress |-> None])]
    /\ UNCHANGED worker_vars

\* list_namespaced_pod raises ApiException: (False, message, None)
ListPodsRaises ==
    /\ pods_loop.pc = "pods"
    /\ pods_loop.n = 0
    /\ pods_loop' =
          [pods_loop EXCEPT
             !.pc = "returned",
             !.result = CheckStoreReady([ns |-> "exists", all_ready |-> FALSE,
                                         pod_failure |-> None, ingress |-> None])]
    /\ UNCHANGED worker_vars

VisitNextPod ==
    /\ pods_loop.pc = "pods"
    /\ pods_loop.n < MaxPods
    /\ \E pod \in Pods : pods_loop' = VisitPod(pods_loop, pod)
    /\ UNCHANGED worker_vars

\* the loop is over: all_ready, the verdict and (when ready) the ingress lookup
ReturnVerdict ==
    /\ pods_loop.pc = "pods"
    /\ \E ing \in IF pods_loop.failure_reason = None /\ AllReady(pods_loop)
                   THEN Ingresses ELSE {NoLookup} :
         pods_loop' =
            [pods_loop EXCEPT
               !.pc = "returned",
               !.ingress = ing,
               !.result = CheckStoreReady([ns |-> "exists",
                                           all_ready |-> AllReady(pods_loop),
                                           pod_failure |-> pods_loop.failure_reason,
                                           ingress |-> GetIngressUrl(ing)])]
    /\ UNCHANGED worker_vars

ReadinessNext ==
    \/ CheckNamespaceExists
    \/ ListPodsRaises
    \/ VisitNextPod
    \/ ReturnVerdict

ReadinessSpec == ReadinessInit /\ [][ReadinessNext]_vars

\* ------------------------- check_pods_ready on two orders of one pod list
\* Two runs of the loop side by side: "first" goes through the pods in the
\* order the cluster lists them, "second" through the same pods with two
\* neighbours of the list exchanged (held: the first of the two, which the
\* second run visits after the other).  Every permutation of a list is a
\* chain of such exchanges.
PermutationInit ==
    /\ Started(MaxWorkers)
    /\ pods_loop = [pc |-> "same", first |-> NoCall, second |-> NoCall, held |-> NoPod]

\* the loop's locals after the iteration for this pod (the loop variable
\* itself is not kept)
AfterPod(l, pod) == [VisitPod(l, pod) EXCEPT !.pod = NoPod]

\* both runs come to the same pod
VisitSame ==
    /\ pods_loop.pc \in {"same", "exchanged"}
    /\ pods_loop.first.n < MaxPods
    /\ \E pod \in Pods :
         pods_loop' = [pods_loop EXCEPT !.first = AfterPod(@, pod),
                                        !.second = AfterPod(@, pod)]
    /\ UNCHANGED worker_vars

\* the first run comes to the first pod of the exchanged pair
VisitHeld ==
    /\ pods_loop.pc = "same"
    /\ pods_loop.first.n + 1 < MaxPods
    /\ \E pod \in Pods :
         pods_loop' = [pods_loop EXCEPT !.pc = "holding",
                                        !.first = AfterPod(@, pod),
                                        !.held = pod]
    /\ UNCHANGED worker_vars

\* the first run comes to the second pod of the pair; the second run has the
\* two in the other order
VisitExchanged ==
    /\ pods_loop.pc = "holding"
    /\ \E pod \in Pods :
         pods_loop' = [pods_loop EXCEPT
                         !.pc = "exchanged",
                         !.first = AfterPod(@, pod),
                         !.second = AfterPod(AfterPod(@, pod), pods_loop.held),
                         !.held = NoPod]
    /\ UNCHANGED worker_vars

\* what check_store_ready returns from the loop's locals, with url what
\* get_ingress_url gives
Verdict(l, url) ==
    CheckStoreReady([ns |-> "exists", all_ready |-> AllReady(l),
                     pod_failure |-> l.failure_reason, ingress |-> url])

\* both loops are over
ReturnBoth ==
    /\ pods_loop.pc \in {"same", "exchanged"}
    /\ \E ing \in Ingresses :
         pods_loop' = [pods_loop EXCEPT
                         !.pc = "returned",
                         !.first.result = Verdict(pods_loop.first, GetIngressUrl(ing)),
                         !.second.result = Verdict(pods_loop.second, GetIngressUrl(ing))]
    /\ UNCHANGED worker_vars

PermutationNext ==
    \/ VisitSame
    \/ VisitHeld
    \/ VisitExchanged
    \/ ReturnBoth

PermutationSpec == PermutationInit /\ [][PermutationNext]_vars

\* ================================================================ claims
PermittedEdges ==
    {<<"PROVISIONING", "READY">>, <<"PROVISIONING", "FAILED">>,
     <<"READY", "DELETING">>, <<"FAILED", "DELETING">>, <<"PROVISIONING", "DELETING">>,
     <<"DELETING", "DELETED">>, <<"DELETING", "FAILED">>}

\* C1: every change of a store's persisted status is an edge of the permitted
\* graph PROVISIONING->{READY,FAILED}, {READY,FAILED,PROVISIONING}->DELETING,
\* DELETING->{DELETED,FAILED}.
C1_OnlyPermittedEdges ==
    [][\A s \in DOMAIN db :
          db'[s].status # db[s].status
             => <<db[s].status, db'[s].status>> \in PermittedEdges]_vars

\* C2: DELETED is terminal (a DELETED store's status never changes again) and
\* no operation removes a store record.
C2_DeletedIsTerminal ==
    [][/\ DOMAIN db \subseteq DOMAIN db'
       /\ \A s \in DOMAIN db :
             db[s].status = "DELETED" => db'[s].status = "DELETED"]_vars

\* C3: in every reachable state, failure_reason is non-null exactly when the
\* status is FAILED.
C3_FailureReasonIffFailed ==
    \A s \in DOMAIN db : (db[s].failure_reason # None) <=> (db[s].status = "FAILED")

\* C4: in every reachable state, store_url is non-null exactly when the
\* status is READY.
C4_StoreUrlIffReady ==
    \A s \in DOMAIN db : (db[s].store_url # None) <=> (db[s].status = "READY")

\* C5: for every store id at most one reconciler task is queued or executing.
C5_AtMostOneTaskPerStore ==
    \A s \in Ids :
        Cardinality({t \in TaskIds : tasks[t].store = s /\ tasks[t].pc \in LivePcs}) <= 1

\* C6: at most one non-DELETED record holds a given name, also when creates of
\* the same name overlap.
C6_NameUniqueAmongLive ==
    \A n \in Names :
        Cardinality({s \in DOMAIN db : db[s].name = n /\ db[s].status # "DELETED"}) <= 1

\* two creates of one name overlapped: the second passed the name query and
\* was refused at commit, the first one's record is there
C6_Witness ==
    \E c \in Callers :
        /\ thr[c].op = "create" /\ thr[c].exc = "IntegrityError"
        /\ \E s \in DOMAIN db : db[s].name = thr[c].name /\ db[s].status # "DELETED"

\* C7: a create whose name is taken is answered 400, inserts no record and
\* submits no task (also when it overlaps the first create), and a create
\* that inserted its record is answered 202.
C7_DuplicateAnswered400 ==
    \A c \in Callers :
        (thr[c].op = "create" /\ thr[c].pc = "done") =>
            IF thr[c].exc # "none"
            THEN thr[c].resp = 400 /\ thr[c].id = 0
            ELSE thr[c].resp = 202 /\ thr[c].id \in DOMAIN db

C9_TimeoutCountedFromLoopStart ==
    [][\A t \in TaskIds :
          tasks[t].pc = "poll" =>
            /\ tasks[t].elapsed = tasks[t].checks
            /\ (tasks'[t].pc = "poll" /\ tasks'[t] # tasks[t]) =>
                 tasks[t].checks <= ProvisioningTimeout
            /\ tasks'[t].pc = "finished" =>
                 IF tasks[t].checks > ProvisioningTimeout
                 THEN /\ tasks'[t].out = "timeout"
                      /\ db'[tasks[t].store].status = "FAILED"
                      /\ db'[tasks[t].store].failure_reason = "Provisioning timed out"
                 ELSE tasks'[t].out # "timeout"]_vars

\* a store that had already waited in an earlier process life is timed out by
\* the task resumed for it
C9_Witness ==
    \E t \in TaskIds :
        /\ tasks[t].pc = "finished" /\ tasks[t].out = "timeout"
        /\ age[tasks[t].store] >= 1
        /\ db[tasks[t].store].status = "FAILED"
        /\ db[tasks[t].store].failure_reason = "Provisioning timed out"

\* C10: when the startup resume has returned, every store that is still
\* PROVISIONING (the stores whose tasks the crash cut off among them) has a
\* queued or running task again.
C10_ResumeCoversProvisioning ==
    \A c \in Callers :
        (thr[c].op = "boot" /\ thr[c].pc = "done") =>
            \A s \in DOMAIN db : db[s].status = "PROVISIONING" => HasLiveTask(s)

\* a store whose task was polling when the process died is PROVISIONING after
\* the restart and has a task when the startup resume returns
C10_Witness ==
    \E c \in Callers :
        /\ thr[c].op = "boot" /\ thr[c].pc = "done"
        /\ \E s \in DOMAIN db :
              /\ db[s].status = "PROVISIONING"
              /\ age[s] >= 1
              /\ crashes >= 1
              /\ HasLiveTask(s)

\* C11: a task whose Status query reported an existing release (any status
\* token) goes straight to the readiness loop without invoking Install and
\* never invokes it later; Install is invoked only after Status reported the
\* release absent.
C11_InstallOnlyWhenStatusAbsent ==
    [][\A t \in TaskIds :
          /\ (tasks[t].pc = "status" /\ tasks'[t].pc \in RunningPcs \ {"status"}) =>
                IF tasks'[t].helm_status # None
                THEN tasks'[t].pc = "poll" /\ release' = release /\ db' = db
                ELSE tasks'[t].pc = "install"
          /\ tasks'[t].pc = "install" => tasks'[t].helm_status = None
          /\ tasks[t].pc = "poll" => tasks'[t].pc # "install"]_vars

\* a task found the release with a status token other than "deployed" and is
\* in its readiness loop
C11_Witness ==
    \E t \in TaskIds :
        /\ tasks[t].pc = "poll"
        /\ tasks[t].helm_status = "failed"
        /\ release[tasks[t].store]

\* C12: with the calls made one after another, when a resume call has
\* completed every PROVISIONING store has at most one queued or running task,
\* and the submission of a resume call for a store whose task is unfinished
\* is dropped: it adds no task and leaves the queue and the task map alone.
C12_ResumeIdempotent ==
    /\ [](\A c \in Callers :
            (thr[c].op \in {"resume", "boot"} /\ thr[c].pc = "done") =>
               \A s \in DOMAIN db :
                  db[s].status = "PROVISIONING" =>
                     Cardinality({t \in TaskIds :
                                    tasks[t].store = s /\ tasks[t].pc \in LivePcs}) <= 1)
    /\ [][\A c \in Callers :
            (/\ thr[c].op \in {"resume", "boot"}
             /\ thr[c].pc = "sub_check" /\ thr'[c] # thr[c] /\ up'
             /\ HasUnfinishedFuture(thr[c].id))
               => tasks' = tasks /\ queue' = queue /\ active_futures' = active_futures]_vars

\* the startup resume was the first call and submitted the store's task; a
\* second resume call, the only request since the store's creation, has
\* completed and the store still has that one task
C12_Witness ==
    \E c \in Callers :
        /\ thr[c].op = "resume" /\ thr[c].pc = "done"
        /\ crashes = 1 /\ requests = 2
        /\ \E s \in DOMAIN db :
              /\ db[s].status = "PROVISIONING"
              /\ age[s] >= 1
              /\ Cardinality({t \in TaskIds :
                                 tasks[t].store = s /\ tasks[t].pc \in LivePcs}) = 1

\* C13: once a store is READY (which only a reconciler task commits), no
\* step of a reconciler task changes its status: a later or a concurrent task
\* never overwrites the first terminal verdict.
C13_NoRegressionFromReady ==
    [][\A s \in DOMAIN db :
          (db[s].status = "READY" /\ db'[s].status # "READY") => tasks' = tasks]_vars

\* C14: a task that loads a store which is absent or not PROVISIONING returns
\* at once: it invokes neither the packager nor the cluster reader and writes
\* nothing to the table, then or later.
C14_SkipWithoutEffect ==
    [][\A t \in TaskIds :
          LET s == tasks[t].store IN
          /\ (/\ tasks[t].pc = "queued"
              /\ tasks'[t].pc \notin {"queued", "free"}
              /\ (s \notin DOMAIN db \/ db[s].status # "PROVISIONING"))
                => /\ tasks'[t].pc = "finished" /\ tasks'[t].out = "skip"
                   /\ db' = db /\ release' = release
          /\ (tasks[t].out = "skip" /\ tasks'[t] # tasks[t])
                => tasks'[t].pc = "free" /\ db' = db /\ release' = release]_vars

\* a task found its store DELETING (a delete came before the task started)
\* and returned
C14_Witness ==
    \E t \in TaskIds :
        /\ tasks[t].pc = "finished" /\ tasks[t].out = "skip"
        /\ db[tasks[t].store].status = "DELETING"
        /\ db[tasks[t].store].failure_reason = None

\* the reason text the claim expects for a packager output
C15_InstallFailedForm(output) ==
    IF output = "Helm install failed: stderr"
    THEN "Helm install failed: Helm install failed: stderr"
    ELSE "Helm install failed: Helm install timed out for release"

\* C15: when Install fails (non-zero exit or subprocess timeout) the task
\* commits FAILED with the reason "...install failed: {output}" carrying the
\* packager's output and returns without a readiness check; it never writes
\* to the store again, so it never commits READY.
C15_InstallFailureIsTerminal ==
    [][\A t \in TaskIds :
          LET s == tasks[t].store IN
          /\ (tasks[t].pc = "install" /\ tasks'[t].pc = "finished") =>
                /\ tasks'[t].out = "install_failed"
                /\ tasks'[t].output \in InstallFailureOutputs
                /\ tasks[t].checks = 0
                /\ db'[s].status = "FAILED"
                /\ db'[s].failure_reason = C15_InstallFailedForm(tasks'[t].output)
          /\ (tasks[t].out = "install_failed" /\ tasks'[t] # tasks[t]) =>
                tasks'[t].pc = "free" /\ db' = db]_vars

\* an install of an absent release timed out and the store is FAILED with the
\* reason carrying that output
C15_Witness ==
    \E t \in TaskIds :
        /\ tasks[t].pc = "finished" /\ tasks[t].out = "install_failed"
        /\ tasks[t].output = "Helm install timed out for release"
        /\ db[tasks[t].store].status = "FAILED"
        /\ db[tasks[t].store].failure_reason =
              "Helm install failed: Helm install timed out for release"

\* C16: a task that starts with its store PROVISIONING ends, on every path
\* (a failing repository call among them), with READY or FAILED written for
\* that store.
C16_TaskEndsWithTerminalStatus ==
    [][\A t \in TaskIds :
          LET s == tasks[t].store IN
          (/\ tasks[t].pc \in LivePcs
           /\ tasks'[t].pc = "finished"
           /\ (tasks[t].pc \in RunningPcs \/ db[s].status = "PROVISIONING"))
             => db'[s].status \in {"READY", "FAILED"}]_vars

\* C17: a cluster read that fails with an error other than not-found makes
\* the iteration count as in-progress, so a task leaves its readiness loop
\* only by the timeout or by a ready or failed verdict of the classifier,
\* never because a read raised.
C17_ClusterErrorIsInProgress ==
    [][\A t \in TaskIds :
          (tasks[t].pc = "poll" /\ tasks'[t].pc = "finished") =>
             /\ tasks'[t].out \in {"timeout", "ready", "failed"}
             /\ db'[tasks[t].store].failure_reason # "Unexpected error"]_vars

\* C18: with the workloads and the setup job successful but the ingress
\* absent the iteration is in-progress, so a task that commits READY always
\* commits it with the store's URL.
C18_ReadyOnlyWithIngress ==
    [][\A t \in TaskIds :
          (tasks[t].pc = "poll" /\ tasks'[t].pc = "finished" /\ tasks'[t].out = "ready")
             => db'[tasks[t].store].store_url # None]_vars

C20_RoleFailed(pod) ==
    \E i \in DOMAIN pod.cs :
        \/ /\ pod.cs[i].state = "waiting"
           /\ pod.cs[i].reason \in {"ImagePullBackOff", "ErrImagePull", "CrashLoopBackOff"}
        \/ /\ pod.cs[i].state = "terminated"
           /\ pod.cs[i].exit_code # 0

\* C20: the iteration for a database or app pod records a failure exactly
\* when some container of the pod, at any position and in any pod phase, is
\* waiting with ImagePullBackOff, ErrImagePull or CrashLoopBackOff or is
\* terminated with a non-zero exit code.
C20_WorkloadFailedExactlyWhen ==
    [][(/\ pods_loop'.n = pods_loop.n + 1
        /\ pods_loop'.pod.role \in {"mysql", "wordpress"})
          => IF C20_RoleFailed(pods_loop'.pod)
             THEN pods_loop'.failure_reason # None
             ELSE pods_loop'.failure_reason = pods_loop.failure_reason]_vars

\* which role a failure reason names: 1 database, 2 app, 3 setup job
C21_Rank(reason) ==
    IF reason \in {"MySQL: ImagePullBackOff", "MySQL: ErrImagePull",
                   "MySQL: CrashLoopBackOff", "MySQL: Container terminated"} THEN 1
    ELSE IF reason \in {"WordPress: ImagePullBackOff", "WordPress: ErrImagePull",
                        "WordPress: CrashLoopBackOff (Restarts: n)",
                        "WordPress: Container terminated"} THEN 2
    ELSE 3

\* C21: with several roles failed the reason reported is that of the first
\* failing role in the order database, app, setup job, in whatever order the
\* cluster lists the pods: a recorded reason is never replaced by the reason
\* of a role later in that order.
C21_FirstFailingRoleReported ==
    [][(pods_loop'.n = pods_loop.n + 1 /\ pods_loop.failure_reason # None)
          => C21_Rank(pods_loop'.failure_reason) <= C21_Rank(pods_loop.failure_reason)]_vars

C23_SetupJobPredicate ==
    [][(pods_loop'.n = pods_loop.n + 1 /\ pods_loop'.pod.role = "woocommerce-setup") =>
          LET cs == pods_loop'.pod.cs
              zero == {i \in DOMAIN cs : cs[i].state = "terminated" /\ cs[i].exit_code = 0}
              nonzero == {i \in DOMAIN cs : cs[i].state = "terminated" /\ cs[i].exit_code # 0}
          IN /\ pods_loop'.setup_job_completed =
                   (pods_loop.setup_job_completed \/ Cardinality(zero) = 1)
             /\ IF nonzero # {}
                THEN pods_loop'.failure_reason = "Setup job failed with exit code 2"
                ELSE pods_loop'.failure_reason = pods_loop.failure_reason]_vars

\* C24: a delete of an existing store that is not DELETED first writes
\* DELETING and only then runs the uninstall; when the uninstall succeeds the
\* handler answers 200 with the store DELETED, when it fails the handler
\* answers 500 with the store FAILED and a failure reason that carries the
\* uninstall output; the handler never answers with the store left DELETING.
C24_DeleteMarksUninstallsAndSettles ==
    [][\A c \in Callers :
         LET s == thr[c].id IN
         /\ (thr[c].pc = "del_mark" /\ thr'[c].pc = "del_uninstall")
               => /\ db'[s].status = "DELETING"
                  /\ release' = release
         /\ (thr[c].pc = "del_uninstall" /\ thr'[c].pc = "done")
               => /\ db'[s].status # "DELETING"
                  /\ \/ /\ thr'[c].resp = 200
                        /\ db'[s].status = "DELETED"
                     \/ /\ thr'[c].resp = 500
                        /\ thr'[c].output \in UninstallFailureOutputs
                        /\ db'[s].status = "FAILED"
                        /\ db'[s].failure_reason
                              = DeleteFailureReason(thr'[c].output)]_vars

\* C25: a delete of a store whose status is DELETED is answered 400 and a
\* delete of an unknown id is answered 404; in both cases the handler stops
\* there: no store record and no release changes, and the handler does not go
\* on to the marking and the uninstall.
C25_DeleteRefused ==
    [][\A c \in Callers :
         LET s == thr'[c].id IN
         /\ (thr[c].pc = "idle" /\ thr'[c].op = "delete")
               => /\ s \notin DOMAIN db
                       => /\ thr'[c].pc = "done" /\ thr'[c].resp = 404
                          /\ db' = db /\ release' = release
                  /\ (s \in DOMAIN db /\ db[s].status = "DELETED")
                       => /\ thr'[c].pc = "done" /\ thr'[c].resp = 400
                          /\ db' = db /\ release' = release
         /\ (thr[c].op = "delete" /\ thr[c].pc = "done" /\ thr[c].resp \in {400, 404})
               => /\ thr'[c].pc \in {"done", "idle"}
                  /\ thr'[c] # thr[c] => (db' = db /\ release' = release)]_vars

C25_Witness ==
    \E c \in Callers :
       /\ thr[c].op = "delete" /\ thr[c].pc = "done" /\ thr[c].resp = 400
       /\ thr[c].id \in DOMAIN db /\ db[thr[c].id].status = "DELETED"

\* C26: update_store_status refuses every requested status change that is not
\* an edge of the permitted graph and leaves the record as it was; for an id
\* without a record it changes nothing.
C26_UpdateStatusRefusesNonEdges ==
    [][/\ \A s \in DOMAIN db :
            <<db[s].status, db'[s].status>> \notin PermittedEdges => db'[s] = db[s]
       /\ \A s \in Ids \ DOMAIN db :
            UpdateStoreStatus(db, s, "READY", None, "http://host") = db]_vars

\* C27: once a store is created, no step (status commits of the tasks, the
\* delete handler, resume) changes its id, name, namespace or release: the
\* namespace is "store-" + id and the release is the id in every reachable
\* state.
C27_IdentityFieldsFrozen ==
    /\ [](\A s \in DOMAIN db :
            db[s].namespace = <<"store-", s>> /\ db[s].helm_release = s)
    /\ [][\A s \in DOMAIN db :
            /\ s \in DOMAIN db'
            /\ db'[s].name = db[s].name
            /\ db'[s].namespace = db[s].namespace
            /\ db'[s].helm_release = db[s].helm_release]_vars

\* a store that was provisioned to READY, then deleted, after a restart
C27_Witness ==
    \E s \in DOMAIN db :
       /\ db[s].status = "DELETED" /\ db[s].store_url # None
       /\ crashes > 0 /\ up
       /\ db[s].namespace = <<"store-", s>> /\ db[s].helm_release = s

\* C28: when create_store succeeds, get_store_by_id on the returned id gives
\* a record with status PROVISIONING, no failure reason, no store url,
\* namespace "store-" + id and release id; a create never persists a record
\* with another status, and a refused create persists nothing.
C28_CreateThenGet ==
    [][/\ \A c \in Callers :
            (thr[c].pc = "create_commit" /\ thr'[c].pc = "sub_check")
               => LET s == thr'[c].id
                      got == GetStoreById(db', s)
                  IN /\ GetStoreById(db, s) = NoStore
                     /\ got # NoStore
                     /\ got.status = "PROVISIONING"
                     /\ got.failure_reason = None
                     /\ got.store_url = None
                     /\ got.namespace = <<"store-", s>>
                     /\ got.helm_release = s
                     /\ got.name = thr[c].name
       /\ \A s \in DOMAIN db' \ DOMAIN db : db'[s].status = "PROVISIONING"
       /\ \A c \in Callers :
            (thr'[c].op = "create" /\ thr'[c].pc = "done" /\ thr[c].pc # "done"
               /\ thr'[c].resp # 202) => db' = db]_vars

C28_Witness ==
    \E c \in Callers :
       /\ thr[c].op = "create" /\ thr[c].pc = "sub_check"
       /\ GetStoreById(db, thr[c].id) # NoStore
       /\ GetStoreById(db, thr[c].id).status = "PROVISIONING"
       /\ Cardinality(DOMAIN db) = MaxStores

\* the invalid inputs of the claim: a name or an admin field that is empty
\* once trimmed, or an engine outside {woocommerce, medusa}
C29_Invalid(req) ==
    \/ req.name.text = 0
    \/ req.admin_username.text = 0
    \/ req.admin_password.text = 0
    \/ req.admin_email.text = 0
    \/ req.engine \notin {"woocommerce", "medusa"}

\* C29: a create with invalid input (name, admin username, admin password or
\* admin email empty after trimming, or an engine outside the enum) is
\* answered 400, inserts no record and submits no task.
C29_InvalidCreateRefused ==
    /\ [](\A s \in DOMAIN db : db[s].name \in Names)
    /\ [][\A c \in Callers :
            (thr[c].pc = "idle" /\ thr'[c].op = "create")
               => \A req \in CreateRequests :
                    (C29_Invalid(req) /\ thr'[c] = CreateOutcome(db, req))
               => /\ thr'[c].pc = "done"
                  /\ thr'[c].resp = 400
                  /\ thr'[c].id = 0
                  /\ db' = db
                  /\ tasks' = tasks /\ queue' = queue
                  /\ active_futures' = active_futures]_vars
    /\ [][\A c \in Callers :
            (thr[c].op = "create" /\ thr[c].pc = "done" /\ thr[c].resp = 400
               /\ thr'[c] # thr[c])
               => thr'[c].pc = "idle"]_vars

\* a create refused for a blank field or a foreign engine, beside a store
\* that a valid create inserted
C29_Witness ==
    \E c \in Callers :
       /\ thr[c].op = "create" /\ thr[c].pc = "done" /\ thr[c].resp = 400
       /\ thr[c].exc = "ValueError" /\ thr[c].name = 0
       /\ DOMAIN db # {}

C31_Credentials == {"db_root_password", "db_password", "admin_password"}

\* C31: credentials are never logged and never returned: no log record of a
\* reconciler task (with the values and the packager command it builds) holds
\* a store's db_root_password, db_password or admin_password, and no API
\* response holds them.
C31_CredentialsNeverLogged ==
    /\ \A t \in TaskIds : tasks[t].logged \cap C31_Credentials = {}
    /\ ResponseColumns \cap C31_Credentials = {}

\* C32: when a task has completed and its completion callback has run, the
\* task map has no entry for the store (no newer submission being there), so
\* a later submit of the same id is accepted: it goes on to executor.submit
\* instead of being dropped.
C32_EntryClearedOnCompletion ==
    [][/\ \A t \in TaskIds :
            (tasks[t].pc = "finished" /\ tasks'[t].pc = "free" /\ up')
               => active_futures'[tasks[t].store] = 0
       /\ \A c \in Callers :
            (thr[c].pc = "sub_check" /\ thr'[c] # thr[c] /\ up'
               /\ \A t \in TaskIds : tasks[t].store = thr[c].id => tasks[t].pc = "free")
               => thr'[c].pc = "sub_exec"]_vars

\* a resume submits again a store whose earlier task has completed and been
\* cleaned up, and the submission is accepted
C32_Witness ==
    \E c \in Callers :
       /\ thr[c].op = "resume" /\ thr[c].pc = "sub_exec"
       /\ \A t \in TaskIds : tasks[t].store # thr[c].id
       /\ db[thr[c].id].status # "PROVISIONING"

\* C33: the completion callback of a finished task never removes the map
\* entry of a newer, still unfinished task of the same store: when a submit
\* has replaced the finished task's entry before the old callback runs, the
\* new entry is still there after the callback.
C33_CallbackSparesNewerEntry ==
    [][\A t \in TaskIds :
         (tasks[t].pc = "finished" /\ tasks'[t].pc = "free" /\ up')
            => LET s == tasks[t].store
                   u == active_futures[s]
               IN (u # 0 /\ u # t /\ tasks[u].pc \in LivePcs)
                     => active_futures'[s] = u]_vars

\* C34: helm install is never invoked for a store whose persisted status at
\* the moment of the invocation is DELETING or DELETED, however the task
\* (which reads the status once, at its start) and a delete request for the
\* same store interleave.
C34_NoInstallWhileDeleting ==
    [][\A t \in TaskIds :
         (tasks[t].pc = "install" /\ tasks'[t].pc \in {"poll", "finished"})
            => db[tasks[t].store].status \notin {"DELETING", "DELETED"}]_vars

\* C35: one execution of a task writes the store's status at most once (the
\* write ends the execution), and what it writes is READY or FAILED: READY in
\* the update that carries the store url, FAILED always with a failure
\* reason; no other record is touched.
C35_OneTerminalWrite ==
    [][\A t \in TaskIds :
         (tasks[t].pc \in LivePcs /\ tasks'[t] # tasks[t] /\ up')
            => LET s == tasks[t].store IN
               /\ tasks'[t].pc # "finished" => db' = db
               /\ (tasks'[t].pc = "finished" /\ tasks'[t].out = "skip") => db' = db
               /\ (tasks'[t].pc = "finished" /\ tasks'[t].out # "skip")
                    => /\ \A r \in DOMAIN db \ {s} : db'[r] = db[r]
                       /\ db'[s].status \in {"READY", "FAILED"}
                       /\ db'[s].status = "READY"
                            => /\ tasks'[t].out = "ready"
                               /\ db'[s].failure_reason = db[s].failure_reason
                               /\ db'[s].store_url \in {db[s].store_url, "http://host"}
                       /\ db'[s].status = "FAILED"
                            => /\ db'[s].failure_reason # None
                               /\ db'[s].store_url = db[s].store_url]_vars

\* a task has ended with its one write, READY with the store url
C35_Witness ==
    \E t \in TaskIds :
       /\ tasks[t].pc = "finished" /\ tasks[t].out = "ready"
       /\ db[tasks[t].store].status = "READY"
       /\ db[tasks[t].store].store_url = "http://host"

\* C36: no store is left behind: whenever the process serves (the startup
\* resume has returned) and no create stands between its insert and the end
\* of its submit, every store whose status is PROVISIONING has a queued or
\* running task in the task map.
C36_NoStoreLeftBehind ==
    (/\ up /\ ~booting
     /\ \A c \in Callers :
          ~(thr[c].op = "create" /\ thr[c].pc \in {"sub_check", "sub_exec"}))
       => \A s \in DOMAIN db :
            db[s].status = "PROVISIONING"
               => /\ active_futures[s] # 0
                  /\ tasks[active_futures[s]].store = s
                  /\ tasks[active_futures[s]].pc \in LivePcs

\* C37: a delete is accepted for a store in every status but DELETED,
\* DELETING included: it goes on to mark the store and to run the uninstall.
\* So a store left in DELETING (by a crash during a delete, or by an
\* overlapping delete) can be deleted again, and two overlapping deletes of
\* one store both run the uninstall.
C37_DeleteAcceptedUnlessDeleted ==
    [][\A c \in Callers :
         /\ (thr[c].pc = "idle" /\ thr'[c].op = "delete"
                /\ thr'[c].id \in DOMAIN db /\ db[thr'[c].id].status # "DELETED")
               => thr'[c].pc = "del_mark"
         /\ (thr[c].pc = "del_mark" /\ thr'[c] # thr[c] /\ up')
               => thr'[c].pc = "del_uninstall"
         /\ (thr[c].pc = "del_uninstall" /\ thr'[c] # thr[c] /\ up')
               => /\ thr'[c].pc = "done"
                  /\ \/ thr'[c].resp = 200 /\ ~release'[thr[c].id]
                     \/ thr'[c].resp = 500 /\ thr'[c].output \in UninstallFailureOutputs]_vars

\* a delete accepted for a store that a crash during an earlier delete left
\* in DELETING
C37_Witness ==
    \E c \in Callers :
       /\ crashes > 0
       /\ thr[c].op = "delete" /\ thr[c].pc = "del_mark"
       /\ db[thr[c].id].status = "DELETING"

\* C38: a create is refused when its name is held by any existing record, a
\* DELETED one included, so the name of a deleted store is never reused and
\* there is at most one record per name among all rows.
C38_NameNeverReused ==
    /\ [](\A n \in Names : Cardinality({s \in DOMAIN db : db[s].name = n}) <= 1)
    /\ [][\A c \in Callers :
            (thr[c].pc = "idle" /\ thr'[c].op = "create" /\ thr'[c].name # 0
               /\ \E s \in DOMAIN db : db[s].name = thr'[c].name)
               => /\ thr'[c].pc = "done"
                  /\ thr'[c].resp = 400
                  /\ db' = db]_vars

\* a create refused for the name of a DELETED store
C38_Witness ==
    \E c \in Callers :
       /\ thr[c].op = "create" /\ thr[c].pc = "done" /\ thr[c].resp = 400
       /\ thr[c].name # 0
       /\ \E s \in DOMAIN db : db[s].name = thr[c].name /\ db[s].status = "DELETED"
       /\ \A s \in DOMAIN db : db[s].name = thr[c].name => db[s].status = "DELETED"

\* C39: when the cluster answers not-found for the store's namespace at a
\* poll iteration, the readiness check reports a failure and the task commits
\* FAILED at once instead of going on polling; so also when the namespace was
\* removed by the uninstall of a concurrent delete.
C39_MissingNamespaceFails ==
    [][\A t \in TaskIds :
         (tasks[t].pc = "poll" /\ tasks'[t] # tasks[t] /\ ~TimedOut(tasks[t].elapsed))
            => \A o \in Observations :
                 (o.ns = "absent" /\ PollWith(t, o))
                    => /\ tasks'[t].pc = "finished"
                       /\ tasks'[t].out = "failed"
                       /\ db'[tasks[t].store].status = "FAILED"
                       /\ db'[tasks[t].store].failure_reason
                             = "Namespace does not exist"]_vars

\* a task has failed its store for the missing namespace after a delete of
\* the store had uninstalled the release
C39_Witness ==
    \E t \in TaskIds : \E c \in Callers :
       /\ tasks[t].pc = "finished" /\ tasks[t].out = "failed"
       /\ thr[c].op = "delete" /\ thr[c].id = tasks[t].store
       /\ thr[c].pc = "done" /\ thr[c].resp = 200
       /\ ~release[tasks[t].store]
       /\ db[tasks[t].store].status = "FAILED"
       /\ db[tasks[t].store].failure_reason = "Namespace does not exist"

\* the kind of a verdict of check_store_ready
C40_Kind(r) ==
    IF r.ready THEN "ready"
    ELSE IF r.failure_reason # None THEN "failed"
    ELSE "in-progress"

\* C40: the kind of the readiness verdict (ready, in-progress or failed) is a
\* function of the pods listed, not of their order: two runs over the same
\* pods, the second with two neighbours of the list exchanged, return
\* verdicts of the same kind.
C40_KindIgnoresOrder ==
    pods_loop.pc = "returned"
       => /\ C40_Kind(pods_loop.first.result) = C40_Kind(pods_loop.second.result)
          /\ pods_loop.first.n = pods_loop.second.n

\* the exchange changed the failure reason, and the kind is failed for both
C40_Witness ==
    /\ pods_loop.pc = "returned"
    /\ pods_loop.first.n = MaxPods
    /\ pods_loop.first.result.failure_reason # None
    /\ pods_loop.second.result.failure_reason # None
    /\ pods_loop.first.result.failure_reason # pods_loop.second.result.failure_reason
====
